---- MODULE Spec2Model ----
(***************************************************************************)
(* pinfoplot: the sampler New (src/main.go:56-111) and the plot builders   *)
(* MemPlot, IoPlot and CpuPlot (src/main.go:113-217).                      *)
(*                                                                         *)
(* New is modelled statement by statement: pc names the statement that     *)
(* runs next.  The process-metrics provider (gopsutil) and the plot        *)
(* library (gonum/plot) are the environment: every call to them may fail,  *)
(* the target process may exit at any moment, and the clock may run ahead  *)
(* of the nominal sleeps.  Time is counted in abstract ticks of            *)
(* time.Duration; one target process (Pid) is observed.                    *)
(***************************************************************************)
EXTENDS Integers, Sequences, FiniteSets

VARIABLES
    duration,   \* argument of New (src/main.go:56)
    interval,   \* argument of New (src/main.go:56)
    pc,         \* the statement of New that runs next
    alive,      \* the target process exists and runs (environment)
    now,        \* the monotonic clock read by time.Now / time.Since
    drift,      \* ticks the clock advanced beyond the nominal sleeps
    start,      \* local start (src/main.go:67)
    pi,         \* the ProcessInfo under construction (src/main.go:69-74)
    running,    \* local running (src/main.go:76, 105)
    t,          \* loop variable t (src/main.go:82)
    mem,        \* local mem (src/main.go:83)
    io,         \* local io (src/main.go:87)
    c,          \* local c (src/main.go:91)
    ops,        \* the cumulative I/O counters the provider last reported
    calls,      \* provider calls made so far, per method
    okCalls,    \* provider calls that returned without error, per method
    sleeps,     \* time.Sleep calls made so far
    ret,        \* what New returned: [pi, err]
    plotRet     \* what the last plot builder returned: [plot, err]

vars == <<duration, interval, pc, alive, now, drift, start, pi, running, t,
          mem, io, c, ops, calls, okCalls, sleeps, ret, plotRet>>

----------------------------------------------------------------------------
(* Bounds of the model.                                                    *)

MaxDuration == 3
MaxInterval == 2
MaxDrift == 2

Durations == (0 - 2)..MaxDuration
Intervals == (0 - 1)..MaxInterval

\* Values the provider may report: memory in bytes, cumulative operation
\* counts, CPU utilisation.
MemInfos == { [RSS |-> 4096, VMS |-> 8192], [RSS |-> 8192, VMS |-> 8192] }
OpCounts == { 0, 1 }
CpuFractions == { 50 }

Methods == {"NewProcess", "IsRunning", "MemoryInfo", "IOCounters", "CPUPercent"}

----------------------------------------------------------------------------
(* Pure helpers.                                                           *)

Abs(x) == IF x < 0 THEN 0 - x ELSE x

\* Go's integer division truncates toward zero (b # 0).
GoDiv(a, b) ==
    IF (a >= 0) = (b > 0)
    THEN Abs(a) \div Abs(b)
    ELSE 0 - (Abs(a) \div Abs(b))

\* sampleNo := duration / interval
SampleNo(d, i) == GoDiv(d, i)

\* Variant: a threshold of one sample.
TooFewSamples_OneSuffices(n) == n < 1

\* if sampleNo < 2
TooFewSamples(n) == n < 2

\* time.Since(start)
Since(s) == now - s

\* Variant: the window alone decides, liveness is ignored.
LoopCond_IgnoreRunning(d, e, r) == d = 0 \/ e <= d

\* Variant: the window is open at its end (t < duration).
LoopCond_Strict(d, e, r) == d = 0 \/ (e < d /\ r)

\* duration == 0 || t <= duration && running   (&& binds tighter than ||)
LoopCond(d, e, r) == d = 0 \/ (e <= d /\ r)

\* Variant: the sample records the time remaining, not the time elapsed.
NewSample_Remaining(m, i, cp, e) ==
    [mem |-> m, io |-> i, cpu |-> cp, interval |-> duration - e]

\* sample := sample{mem: mem, io: io, cpu: c, interval: t}
NewSample(m, i, cp, e) == [mem |-> m, io |-> i, cpu |-> cp, interval |-> e]

\* The zero values of the locals before their declarations run.
NoMem == [RSS |-> 0, VMS |-> 0]
NoIo == [ReadCount |-> 0, WriteCount |-> 0]
NoPi == [StartTime |-> 0, SamplingInterval |-> 0, Samples |-> <<>>]

\* A pointer result is <<>> for nil and <<v>> for &v.
NilPtr == <<>>
Ptr(v) == <<v>>

NoReturn == [pi |-> NilPtr, err |-> "none"]
NoPlot == [plot |-> NilPtr, err |-> "none"]

\* Variant: the partial run is returned along with the error.
ReturnError_KeepSamples(e) == [pi |-> Ptr(pi), err |-> e]

\* return nil, err
ReturnError(e) == [pi |-> NilPtr, err |-> e]

\* return pi, nil
ReturnRun == [pi |-> Ptr(pi), err |-> "none"]

Count(m) == [calls EXCEPT ![m] = @ + 1]
CountOk(m) == [okCalls EXCEPT ![m] = @ + 1]

----------------------------------------------------------------------------
(* Initial state: New is about to be called with some arguments on a       *)
(* target that may or may not be running.                                  *)

Init ==
    /\ duration \in Durations
    /\ interval \in Intervals
    /\ alive \in BOOLEAN
    /\ pc = "New"
    /\ now = 0
    /\ drift = 0
    /\ start = 0
    /\ pi = NoPi
    /\ running = FALSE
    /\ t = 0
    /\ mem = NoMem
    /\ io = NoIo
    /\ c = 0
    /\ ops = NoIo
    /\ calls = [m \in Methods |-> 0]
    /\ okCalls = [m \in Methods |-> 0]
    /\ sleeps = 0
    /\ ret = NoReturn
    /\ plotRet = NoPlot

----------------------------------------------------------------------------
(* The statements of New.                                                  *)

\* Lines 57-60: the sample-count check.  Dividing by a zero interval panics.
CheckSampleNo ==
    /\ pc = "New"
    /\ IF interval = 0
       THEN pc' = "panic" /\ ret' = ret
       ELSE IF TooFewSamples(SampleNo(duration, interval))
            THEN pc' = "done" /\ ret' = ReturnError("InsufficientSamples")
            ELSE pc' = "NewProcess" /\ ret' = ret
    /\ UNCHANGED <<duration, interval, alive, now, drift, start, pi, running,
                   t, mem, io, c, ops, calls, okCalls, sleeps, plotRet>>

\* Lines 62-74: resolve the handle, read the clock, build the ProcessInfo.
\* A process that does not exist cannot be resolved; one that exists may
\* still be inaccessible.
CallNewProcess ==
    /\ pc = "NewProcess"
    /\ calls' = Count("NewProcess")
    /\ \E ok \in (IF alive THEN BOOLEAN ELSE {FALSE}) :
         IF ok
         THEN /\ okCalls' = CountOk("NewProcess")
              /\ start' = now
              /\ pi' = [StartTime |-> now, SamplingInterval |-> interval,
                        Samples |-> <<>>]
              /\ pc' = "IsRunning0"
              /\ ret' = ret
         ELSE /\ pc' = "done"
              /\ ret' = ReturnError("NewProcess")
              /\ UNCHANGED <<okCalls, start, pi>>
    /\ UNCHANGED <<duration, interval, alive, now, drift, running, t, mem, io,
                   c, ops, sleeps, plotRet>>

\* Lines 76-79: the initial liveness check.
InitialIsRunning ==
    /\ pc = "IsRunning0"
    /\ calls' = Count("IsRunning")
    /\ \E ok \in BOOLEAN :
         IF ok
         THEN /\ okCalls' = CountOk("IsRunning")
              /\ running' = alive
              /\ pc' = "loop"
              /\ ret' = ret
         ELSE /\ running' = FALSE
              /\ pc' = "done"
              /\ ret' = ReturnError("IsRunning")
              /\ UNCHANGED okCalls
    /\ UNCHANGED <<duration, interval, alive, now, drift, start, pi, t, mem,
                   io, c, ops, sleeps, plotRet>>

\* Line 82: t is (re)assigned time.Since(start), then the condition decides
\* between another iteration and line 110, return pi, nil.
LoopTest ==
    /\ pc = "loop"
    /\ t' = Since(start)
    /\ IF LoopCond(duration, t', running)
       THEN pc' = "MemoryInfo" /\ ret' = ret
       ELSE pc' = "done" /\ ret' = ReturnRun
    /\ UNCHANGED <<duration, interval, alive, now, drift, start, pi, running,
                   mem, io, c, ops, calls, okCalls, sleeps, plotRet>>

\* Lines 83-86.
CallMemoryInfo ==
    /\ pc = "MemoryInfo"
    /\ calls' = Count("MemoryInfo")
    /\ \/ \E m \in MemInfos :
            /\ mem' = m
            /\ okCalls' = CountOk("MemoryInfo")
            /\ pc' = "IOCounters"
            /\ ret' = ret
       \/ /\ pc' = "done"
          /\ ret' = ReturnError("MemoryInfo")
          /\ UNCHANGED <<mem, okCalls>>
    /\ UNCHANGED <<duration, interval, alive, now, drift, start, pi, running,
                   t, io, c, ops, sleeps, plotRet>>

\* Lines 87-90.  The counters are cumulative: never below the last report.
CallIOCounters ==
    /\ pc = "IOCounters"
    /\ calls' = Count("IOCounters")
    /\ \/ \E r \in { n \in OpCounts : n >= ops.ReadCount },
               w \in { n \in OpCounts : n >= ops.WriteCount } :
            /\ io' = [ReadCount |-> r, WriteCount |-> w]
            /\ ops' = [ReadCount |-> r, WriteCount |-> w]
            /\ okCalls' = CountOk("IOCounters")
            /\ pc' = "CPUPercent"
            /\ ret' = ret
       \/ /\ pc' = "done"
          /\ ret' = ReturnError("IOCounters")
          /\ UNCHANGED <<io, ops, okCalls>>
    /\ UNCHANGED <<duration, interval, alive, now, drift, start, pi, running,
                   t, mem, c, sleeps, plotRet>>

\* Lines 91-94.
CallCPUPercent ==
    /\ pc = "CPUPercent"
    /\ calls' = Count("CPUPercent")
    /\ \/ \E f \in CpuFractions :
            /\ c' = f
            /\ okCalls' = CountOk("CPUPercent")
            /\ pc' = "append"
            /\ ret' = ret
       \/ /\ pc' = "done"
          /\ ret' = ReturnError("CPUPercent")
          /\ UNCHANGED <<c, okCalls>>
    /\ UNCHANGED <<duration, interval, alive, now, drift, start, pi, running,
                   t, mem, io, ops, sleeps, plotRet>>

\* Lines 96-103: build the sample and append it.
AppendSample ==
    /\ pc = "append"
    /\ pi' = [pi EXCEPT !.Samples = Append(@, NewSample(mem, io, c, t))]
    /\ pc' = "Sleep"
    /\ UNCHANGED <<duration, interval, alive, now, drift, start, running, t,
                   mem, io, c, ops, calls, okCalls, sleeps, ret, plotRet>>

\* Line 104: time.Sleep(interval) returns at once for interval <= 0 and
\* otherwise no sooner than interval later (lateness is Tick's).
Sleep ==
    /\ pc = "Sleep"
    /\ now' = now + (IF interval > 0 THEN interval ELSE 0)
    /\ sleeps' = sleeps + 1
    /\ pc' = "IsRunning"
    /\ UNCHANGED <<duration, interval, alive, drift, start, pi, running, t,
                   mem, io, c, ops, calls, okCalls, ret, plotRet>>

\* Lines 105-108: the liveness re-check.
CallIsRunning ==
    /\ pc = "IsRunning"
    /\ calls' = Count("IsRunning")
    /\ \E ok \in BOOLEAN :
         IF ok
         THEN /\ okCalls' = CountOk("IsRunning")
              /\ running' = alive
              /\ pc' = "loop"
              /\ ret' = ret
         ELSE /\ running' = FALSE
              /\ pc' = "done"
              /\ ret' = ReturnError("IsRunning")
              /\ UNCHANGED okCalls
    /\ UNCHANGED <<duration, interval, alive, now, drift, start, pi, t, mem,
                   io, c, ops, sleeps, plotRet>>

----------------------------------------------------------------------------
(* The environment while New runs.                                         *)

InNew == pc \notin {"New", "NewProcess", "done", "panic"}

\* The clock runs one tick ahead: a call that takes time, or a late wake-up.
Tick ==
    /\ InNew
    /\ drift < MaxDrift
    /\ now' = now + 1
    /\ drift' = drift + 1
    /\ UNCHANGED <<duration, interval, pc, alive, start, pi, running, t, mem,
                   io, c, ops, calls, okCalls, sleeps, ret, plotRet>>

\* The target process exits.
Exit ==
    /\ alive
    /\ pc \notin {"done", "panic"}
    /\ alive' = FALSE
    /\ UNCHANGED <<duration, interval, pc, now, drift, start, pi, running, t,
                   mem, io, c, ops, calls, okCalls, sleeps, ret, plotRet>>

----------------------------------------------------------------------------
(* The plot builders, called on the run New returned.                      *)

\* The samples of the returned run.
RunSamples == IF ret.pi = NilPtr THEN <<>> ELSE ret.pi[1].Samples

\* s.interval.Seconds(): the model's tick is one second.
Seconds(d) == d

\* One element of a plotter.XYs.
XY(x, y) == [X |-> x, Y |-> y]

\* float64(mem.RSS) / 1024 and float64(mem.VMS) / 1024 (whole KB here).
RssKB(s) == s.mem.RSS \div 1024
VmsKB(s) == s.mem.VMS \div 1024

\* MemPlot's ptsRss and ptsVms after the range loop.
ptsRss(S) == [i \in 1..Len(S) |-> XY(Seconds(S[i].interval), RssKB(S[i]))]
ptsVms(S) == [i \in 1..Len(S) |-> XY(Seconds(S[i].interval), VmsKB(S[i]))]

\* IoPlot's ptsR and ptsW after the range loop:
\* float64(io.ReadCount) and float64(io.WriteCount).
ptsR(S) == [i \in 1..Len(S) |-> XY(Seconds(S[i].interval), S[i].io.ReadCount)]
ptsW(S) == [i \in 1..Len(S) |-> XY(Seconds(S[i].interval), S[i].io.WriteCount)]

\* CpuPlot's pts after the range loop: cpu * 100.
pts(S) == [i \in 1..Len(S) |-> XY(Seconds(S[i].interval), S[i].cpu * 100)]

\* plotter.NewLine(xys): the coordinates are finite, so the copy of a
\* non-empty XYs succeeds; what the library does with an empty XYs is the
\* library's choice and is left open.
NewLineResults(xys) == IF Len(xys) = 0 THEN {"ok", "err"} ELSE {"ok"}

\* pl.Add(line); pl.Legend.Add(name, line)
Line(name, xys) == [legend |-> name, XYs |-> xys]

\* The two lines of MemPlot: RSS from ptsRss, VMS from ptsVms.
MemLines(S) == << Line("RSS", ptsRss(S)), Line("VMS", ptsVms(S)) >>

\* The two lines of IoPlot: lineR from ptsR, and lineW from ptsR as well
\* (line 182 passes ptsR; ptsW is filled and never used).
IoLines(S) == << Line("IO Read", ptsR(S)), Line("IO Write", ptsR(S)) >>

\* The line of CpuPlot.
CpuLines(S) == << Line("CPU", pts(S)) >>

\* A builder: plot.New() may fail, then each NewLine in turn may fail, and
\* otherwise the panel with its lines is returned.
Build(title, lines, newOk, res) ==
    IF ~newOk THEN [plot |-> NilPtr, err |-> "plot.New"]
    ELSE IF \E k \in 1..Len(lines) : res[k] = "err"
         THEN [plot |-> NilPtr, err |-> "NewLine"]
         ELSE [plot |-> Ptr([Title |-> title, lines |-> lines]), err |-> "none"]

LineResults(lines) ==
    { r \in [1..Len(lines) -> {"ok", "err"}] :
        \A k \in 1..Len(lines) : r[k] \in NewLineResults(lines[k].XYs) }

Returned == pc = "done" /\ ret.pi # NilPtr

MemPlot ==
    /\ Returned
    /\ \E newOk \in BOOLEAN, res \in LineResults(MemLines(RunSamples)) :
         plotRet' = Build("Memory Plot", MemLines(RunSamples), newOk, res)
    /\ UNCHANGED <<duration, interval, pc, alive, now, drift, start, pi,
                   running, t, mem, io, c, ops, calls, okCalls, sleeps, ret>>

IoPlot ==
    /\ Returned
    /\ \E newOk \in BOOLEAN, res \in LineResults(IoLines(RunSamples)) :
         plotRet' = Build("IO Plot", IoLines(RunSamples), newOk, res)
    /\ UNCHANGED <<duration, interval, pc, alive, now, drift, start, pi,
                   running, t, mem, io, c, ops, calls, okCalls, sleeps, ret>>

CpuPlot ==
    /\ Returned
    /\ \E newOk \in BOOLEAN, res \in LineResults(CpuLines(RunSamples)) :
         plotRet' = Build("CPU Plot", CpuLines(RunSamples), newOk, res)
    /\ UNCHANGED <<duration, interval, pc, alive, now, drift, start, pi,
                   running, t, mem, io, c, ops, calls, okCalls, sleeps, ret>>

Next ==
    \/ CheckSampleNo
    \/ CallNewProcess
    \/ InitialIsRunning
    \/ LoopTest
    \/ CallMemoryInfo
    \/ CallIOCounters
    \/ CallCPUPercent
    \/ AppendSample
    \/ Sleep
    \/ CallIsRunning
    \/ Tick
    \/ Exit
    \/ MemPlot
    \/ IoPlot
    \/ CpuPlot

Spec == Init /\ [][Next]_vars

----------------------------------------------------------------------------
(* Properties.                                                             *)

Samples == pi.Samples

NoProviderCall == \A m \in Methods : calls[m] = 0

\* A provider call has failed.
Failed == \E m \in Methods : calls[m] # okCalls[m]

\* S is sorted by elapsed time and starts at or after zero.
NonDecreasing(S) ==
    /\ Len(S) > 0 => S[1].interval >= 0
    /\ \A k \in 1..(Len(S) - 1) : S[k].interval <= S[k + 1].interval

\* S2 is S1, or S1 with one sample appended.
Extends(S1, S2) ==
    \/ S2 = S1
    \/ Len(S2) = Len(S1) + 1 /\ SubSeq(S2, 1, Len(S1)) = S1

C2_ZeroDurationAccepted ==
    (pc = "done" /\ duration = 0 /\ interval > 0 /\ alive) =>
        ret.err # "InsufficientSamples"

\* C3: if the handle cannot be resolved, or the initial IsRunning check
\* reports false, New returns an error and no run, and no sample is taken
\* (stated for positive duration and interval).
C3_NotRunningFails ==
    (/\ pc = "done"
     /\ duration > 0
     /\ interval > 0
     /\ \/ calls["NewProcess"] = 1 /\ okCalls["NewProcess"] = 0
        \/ calls["IsRunning"] = 1 /\ okCalls["IsRunning"] = 1 /\ ~running) =>
        /\ ret.pi = NilPtr
        /\ ret.err # "none"
        /\ Samples = <<>>

\* C4: in the panel IoPlot returns, the "IO Read" line plots every
\* sample's ReadCount and the "IO Write" line every sample's WriteCount.
C4_IoSeriesIndependent ==
    (plotRet.plot # NilPtr /\ plotRet.plot[1].Title = "IO Plot") =>
        LET lines == plotRet.plot[1].lines IN
        \A k \in 1..Len(lines) : \A i \in 1..Len(RunSamples) :
            /\ lines[k].legend = "IO Read" =>
                   lines[k].XYs[i].Y = RunSamples[i].io.ReadCount
            /\ lines[k].legend = "IO Write" =>
                   lines[k].XYs[i].Y = RunSamples[i].io.WriteCount

\* C5: once a provider call has failed New has returned nil with that
\* call's error; the samples appended are exactly those of the iterations
\* whose three queries all succeeded and that were slept after, so the
\* failing iteration appended nothing; and after New has returned there is
\* no further provider call, sleep or append.
C5_FailureState ==
    /\ Len(Samples) <= okCalls["CPUPercent"]
    /\ okCalls["CPUPercent"] <= okCalls["IOCounters"]
    /\ okCalls["IOCounters"] <= okCalls["MemoryInfo"]
    /\ Failed =>
          /\ pc = "done"
          /\ ret.pi = NilPtr
          /\ ret.err \in Methods
          /\ calls[ret.err] = okCalls[ret.err] + 1
          /\ Len(Samples) = okCalls["CPUPercent"]
          /\ Len(Samples) = sleeps

C5_NothingAfterReturn ==
    pc = "done" => pc' = "done" /\ calls' = calls /\ sleeps' = sleeps /\ pi' = pi /\ ret' = ret

C5_QueryFailureAborts == []C5_FailureState /\ [][C5_NothingAfterReturn]_vars

\* A query failed in an iteration after the first: a sample had been taken.
C5_Witness ==
    /\ pc = "done"
    /\ ret.err \in {"MemoryInfo", "IOCounters", "CPUPercent", "IsRunning"}
    /\ Len(Samples) >= 1

\* C7: for a process running throughout, with all queries succeeding, every
\* sleep lasting exactly one interval and the calls taking no time, a run
\* with duration D > 0 and interval I takes exactly D / I samples.
C7_ExactlySampleNo ==
    (/\ pc = "done"
     /\ ret.err = "none"
     /\ duration > 0
     /\ interval > 0
     /\ alive
     /\ drift = 0) =>
        Len(RunSamples) = duration \div interval

\* C8: the samples' elapsed values start at or above zero and never
\* decrease, in the run under construction and in the run returned, and
\* every step leaves the samples alone or appends one.
C8_Sorted == NonDecreasing(Samples) /\ NonDecreasing(RunSamples)

C8_AppendOnly == Extends(Samples, Samples')

C8_ElapsedNonDecreasing == []C8_Sorted /\ [][C8_AppendOnly]_vars

\* A returned run whose second sample is later than its first.
C8_Witness ==
    /\ pc = "done"
    /\ Len(RunSamples) >= 2
    /\ RunSamples[1].interval < RunSamples[2].interval

\* C9: with duration > 0, a liveness check follows every sample's sleep
\* (at the loop test the checks made are one more than the samples); a
\* query is issued only while the last check reported running; and from a
\* check that reported false the next step of New returns the run with
\* exactly the samples taken so far, with no error and no provider call.
C9_CheckedEachIteration ==
    duration > 0 =>
        /\ pc = "loop" =>
              /\ okCalls["IsRunning"] = Len(Samples) + 1
              /\ sleeps = Len(Samples)
        /\ pc \in {"MemoryInfo", "IOCounters", "CPUPercent", "append", "Sleep"} =>
              running
        /\ (pc = "done" /\ ret.err = "none") =>
              /\ RunSamples = Samples
              /\ calls["MemoryInfo"] = Len(Samples)
              /\ calls["IOCounters"] = Len(Samples)
              /\ calls["CPUPercent"] = Len(Samples)

C9_StopsAfterExit ==
    (duration > 0 /\ pc = "loop" /\ ~running) =>
        /\ calls' = calls
        /\ sleeps' = sleeps
        /\ Samples' = Samples
        /\ pc' \in {"loop", "done"}
        /\ pc' = "done" => ret' = [pi |-> Ptr(pi), err |-> "none"]

C9_NoSampleAfterExit == []C9_CheckedEachIteration /\ [][C9_StopsAfterExit]_vars

\* New returned a run of at least one sample because a check reported the
\* process gone while the window was still open.
C9_Witness ==
    /\ pc = "done"
    /\ ret.err = "none"
    /\ duration > 0
    /\ ~running
    /\ t <= duration
    /\ Len(RunSamples) >= 1

\* C10 as stated: every run New returns without error holds at least two
\* samples (stated for positive duration and interval and a process that
\* was running when sampling began, so that a first sample was taken).
C10_AtLeastTwoSamples ==
    (/\ pc = "done"
     /\ ret.err = "none"
     /\ duration > 0
     /\ interval > 0
     /\ Len(RunSamples) >= 1) =>
        Len(RunSamples) >= 2

\* C10 as amended: a run returned without error for interval > 0 holds at
\* least two samples when every liveness check reported the process running
\* and the clock ran at most duration - interval ahead of the sleeps.
C10_TwoSamplesWhileRunning ==
    (/\ pc = "done"
     /\ ret.err = "none"
     /\ interval > 0
     /\ running
     /\ drift <= duration - interval) =>
        Len(RunSamples) >= 2

\* A run of exactly two samples at the largest lateness the amended claim
\* allows.
C10_Witness ==
    /\ pc = "done"
    /\ ret.err = "none"
    /\ interval > 0
    /\ running
    /\ drift > 0
    /\ drift = duration - interval
    /\ Len(RunSamples) = 2

====
